---- MODULE Spec2Model ----
(***************************************************************************)
(* Model of codematic/executor.py: Executor.build_and_run_submission, the  *)
(* build-and-run pipeline of one submission, together with the Docker      *)
(* engine objects it creates (image, container), the worker threads that   *)
(* run the test-case execs, and the events it publishes with socketio.emit. *)
(***************************************************************************)
EXTENDS Integers, Sequences, FiniteSets, TLC

\* ------------------------------------------------------------------------
\* Bounds of the model
\* ------------------------------------------------------------------------
MaxTests == 2
MaxStream == 2
MaxFiles == 2
MaxNameLen == 2

\* Output texts: a string is a sequence of characters.
Strings == { <<>>, <<"9">>, <<"9", "\n">> }

\* ------------------------------------------------------------------------
\* Program constants (Executor class attributes)
\* ------------------------------------------------------------------------
BUILDING_DOCKER_IMAGE == 0
DOCKER_IMAGE_BUILT == 1
STARTING_DOCKER_CONTAINER == 2
DOCKER_CONTAINER_STARTED == 3
RUNNING_TEST_CASE == 4
FINISHED_TEST_CASE == 5
CLEANING_UP == 6
FINISHED == 7
DOCKER_IMAGE_FAILED == 8

TEST_CASE_PASSED == 0
TEST_CASE_FAILED == 1
TEST_CASE_TIMED_OUT == 2

\* Marks an event field that the emitted JSON does not carry.
NoData == -1

VARIABLES
    pc,                 \* position of the pipeline in build_and_run_submission
    test_case_outputs,  \* argument: expected output of each test case
    actual_outputs,     \* list written by the worker threads (line 169)
    idx,                \* loop variable of the test-case loop (0-based)
    timed_out,          \* local of the loop body (lines 181-183)
    container_output,   \* local of the loop body (line 186)
    status,             \* local of the loop body (lines 187-192)
    build_dir_exists,   \* the directory build_dir exists on disk
    image_exists,       \* the image tagged image_name exists in the engine
    docker_image_bound, \* the local docker_image has been assigned
    container_bound,    \* the local container has been assigned
    container_running,  \* the container is running in the engine
    alive,              \* test-case indices whose worker thread is alive
    crashed,            \* test-case indices whose worker thread raised
    events,             \* events delivered by socketio.emit, in order
    exc,                \* exception in flight ("none" when there is none)
    outcome,            \* "running", "returned" or "raised"
    injected,           \* calls that failed for a reason outside the pipeline
    image_built,        \* history: the build produced the image
    not_found,          \* history: images.get raised ImageNotFound
    exited_on_own,      \* history: the container exited by itself
    joined_alive,       \* history: the thread was alive when join returned
    stream,             \* the lines the build generator yields (line 118)
    err_msg,            \* local: the build messages kept so far (line 117)
    form_data,          \* the JSON body received by ExecutorEndpoint.post
    post_result,        \* what post did with it ("pending" before the call)
    ppc,                \* two overlapping submissions: each call's position
    unique_id,          \* each call's unique_id (line 70), 0 before it is minted
    uuid_clock,         \* the process's uuid1 timestamp
    context,            \* each call's build context (sources, inputs, Dockerfile)
    run_image,          \* each call's docker_image.id, "unbound" before line 138
    run_container,      \* each call's local container is bound (line 150)
    dirs,               \* build directories under temp_dir
    image_tags,         \* the engine's image store: pairs <<tag, image id>>
    containers          \* the engine's running containers: <<name, image id>>

vars == << pc, test_case_outputs, actual_outputs, idx, timed_out,
           container_output, status, build_dir_exists, image_exists,
           docker_image_bound, container_bound, container_running, alive,
           crashed, events, exc, outcome, injected, image_built, not_found,
           exited_on_own, joined_alive, stream, err_msg,
           form_data, post_result, ppc, unique_id, uuid_clock, context,
           run_image, run_container, dirs, image_tags, containers >>

\* Variables that only a few steps change.
build_log == << stream, err_msg >>
boundary == << form_data, post_result >>
pair == << ppc, unique_id, uuid_clock, context, run_image, run_container,
          dirs, image_tags, containers >>
outside == << boundary, pair >>
rest == << joined_alive, build_log, outside >>

locals == << idx, timed_out, container_output, status >>
engine == << image_exists, docker_image_bound, container_bound,
             container_running, image_built, not_found >>

n == Len(test_case_outputs)

\* The fixed message texts are not modelled; message is NoData for them.
EventWithMessage(type, testCase, st, msg) ==
    [type |-> type, testCase |-> testCase, status |-> st, message |-> msg]

Event(type, testCase, st) == EventWithMessage(type, testCase, st, NoData)

\* ------------------------------------------------------------------------
\* Initial state: the call has been made, nothing exists yet.
\* ------------------------------------------------------------------------
\* Everything but the arguments and the engine's build output.
Start ==
    /\ pc = "makedirs"
    /\ actual_outputs = <<>>
    /\ idx = 0
    /\ timed_out = FALSE
    /\ container_output = <<>>
    /\ status = NoData
    /\ build_dir_exists = FALSE
    /\ image_exists = FALSE
    /\ docker_image_bound = FALSE
    /\ container_bound = FALSE
    /\ container_running = FALSE
    /\ alive = {}
    /\ crashed = {}
    /\ events = <<>>
    /\ exc = "none"
    /\ outcome = "running"
    /\ injected = {}
    /\ image_built = FALSE
    /\ not_found = FALSE
    /\ exited_on_own = FALSE
    /\ joined_alive = FALSE
    /\ err_msg = <<>>

\* The request that led to the call is not looked at again by the pipeline.
Called ==
    /\ form_data = [keys |-> TRUE]
    /\ post_result = "started"

Runs == {1, 2}

\* No other call is in flight and the engine holds nothing of another call.
Alone ==
    /\ ppc = [r \in Runs |-> "idle"]
    /\ unique_id = [r \in Runs |-> 0]
    /\ uuid_clock = 1
    /\ context = [r \in Runs |-> "x"]
    /\ run_image = [r \in Runs |-> "unbound"]
    /\ run_container = [r \in Runs |-> FALSE]
    /\ dirs = {}
    /\ image_tags = {}
    /\ containers = {}

Init ==
    /\ test_case_outputs \in UNION { [1..k -> Strings] : k \in 0..MaxTests }
    /\ stream = <<>>
    /\ Start
    /\ Called
    /\ Alone

\* ------------------------------------------------------------------------
\* Raising inside the outer try block: control goes to "except Exception".
\* Fail(c): the call c fails for an outside reason (disk, daemon, transport).
\* Throw(c): the call c raises because of the state it is applied to.
\* ------------------------------------------------------------------------
Throw(c) ==
    /\ pc' = "except_rmtree"
    /\ exc' = c

Fail(c) ==
    /\ Throw(c)
    /\ injected' = injected \cup {c}

\* ------------------------------------------------------------------------
\* Workspace staging (lines 77-106)
\* ------------------------------------------------------------------------
MakeDirs ==
    /\ pc = "makedirs"
    /\ \/ /\ build_dir_exists' = TRUE
          /\ pc' = "write_files"
          /\ UNCHANGED << exc, injected >>
       \/ /\ Fail("makedirs")
          /\ UNCHANGED build_dir_exists
    /\ UNCHANGED << test_case_outputs, rest, actual_outputs, locals, engine, alive, crashed,
                    events, outcome, exited_on_own >>

WriteFiles ==
    /\ pc = "write_files"
    /\ \/ /\ pc' = "load_docker"
          /\ UNCHANGED << exc, injected >>
       \/ Fail("write")
    /\ UNCHANGED << test_case_outputs, rest, actual_outputs, locals, build_dir_exists,
                    engine, alive, crashed, events, outcome, exited_on_own >>

LoadDocker ==
    /\ pc = "load_docker"
    /\ \/ /\ pc' = "write_dockerfile"
          /\ UNCHANGED << exc, injected >>
       \/ Fail("client")
    /\ UNCHANGED << test_case_outputs, rest, actual_outputs, locals, build_dir_exists,
                    engine, alive, crashed, events, outcome, exited_on_own >>

WriteDockerfile ==
    /\ pc = "write_dockerfile"
    /\ \/ /\ pc' = "emit_building"
          /\ UNCHANGED << exc, injected >>
       \/ Fail("write")
    /\ UNCHANGED << test_case_outputs, rest, actual_outputs, locals, build_dir_exists,
                    engine, alive, crashed, events, outcome, exited_on_own >>

\* ------------------------------------------------------------------------
\* Progress events (socketio.emit('status', ...)); the call is not guarded,
\* so an exception raised by it propagates like any other.
\* ------------------------------------------------------------------------
EmitTypeSwapped(p) ==
    CASE p = "emit_building"    -> BUILDING_DOCKER_IMAGE
      [] p = "emit_failed"      -> DOCKER_IMAGE_FAILED
      [] p = "emit_built"       -> DOCKER_IMAGE_BUILT
      [] p = "emit_starting"    -> DOCKER_CONTAINER_STARTED
      [] p = "emit_started"     -> STARTING_DOCKER_CONTAINER
      [] p = "emit_running"     -> RUNNING_TEST_CASE
      [] p = "emit_finished_tc" -> FINISHED_TEST_CASE
      [] p = "emit_cleaning"    -> CLEANING_UP
      [] p = "emit_finished"    -> FINISHED

EmitType(p) ==
    CASE p = "emit_building"    -> BUILDING_DOCKER_IMAGE
      [] p = "emit_failed"      -> DOCKER_IMAGE_FAILED
      [] p = "emit_built"       -> DOCKER_IMAGE_BUILT
      [] p = "emit_starting"    -> STARTING_DOCKER_CONTAINER
      [] p = "emit_started"     -> DOCKER_CONTAINER_STARTED
      [] p = "emit_running"     -> RUNNING_TEST_CASE
      [] p = "emit_finished_tc" -> FINISHED_TEST_CASE
      [] p = "emit_cleaning"    -> CLEANING_UP
      [] p = "emit_finished"    -> FINISHED

\* The emit at program point p either delivers its event or raises.
Emit(p, testCase, st) ==
    /\ pc = p
    /\ events' = Append(events, Event(EmitType(p), testCase, st))

\* The DOCKER_IMAGE_FAILED event: 'message': err_msg, no 'data'.
EmitWithMessage(p, msg) ==
    /\ pc = p
    /\ events' =
           Append(events, EventWithMessage(EmitType(p), NoData, NoData, msg))

EmitFails(p) ==
    /\ pc = p
    /\ Fail("publish")
    /\ UNCHANGED events

EmitBuilding ==
    /\ \/ /\ Emit("emit_building", NoData, NoData)
          /\ pc' = "build"
          /\ UNCHANGED << exc, injected >>
       \/ EmitFails("emit_building")
    /\ UNCHANGED << test_case_outputs, rest, actual_outputs, locals, build_dir_exists,
                    engine, alive, crashed, outcome, exited_on_own >>

\* ------------------------------------------------------------------------
\* Image build (lines 111-133) and retrieval (lines 135-146)
\* ------------------------------------------------------------------------
\* Text helpers for the filter of line 128.
StartsWith(text, prefix) ==
    /\ Len(text) >= Len(prefix)
    /\ SubSeq(text, 1, Len(prefix)) = prefix

\* line.strip() == ''
Blank(text) == \A k \in 1..Len(text) : text[k] \in {" ", "\n", "\t"}

StepPrefix == <<"S", "t", "e", "p", " ">>
ArrowPrefix == <<" ", "-", "-", "-", ">", " ">>

\* The filter without the space after Step.
KeptLoosely(line) ==
    /\ line.key = "stream"
    /\ ~StartsWith(line.text, <<"S", "t", "e", "p">>)
    /\ ~StartsWith(line.text, ArrowPrefix)
    /\ ~Blank(line.text)

\* Lines 124-128: the line has a 'stream' key and is neither a Docker
\* message nor blank.
Kept(line) ==
    /\ line.key = "stream"
    /\ ~StartsWith(line.text, StepPrefix)
    /\ ~StartsWith(line.text, ArrowPrefix)
    /\ ~Blank(line.text)

\* err_msg after the for loop of lines 118-129 has consumed the lines.
RECURSIVE BuildLog(_)
BuildLog(lines) ==
    IF lines = <<>> THEN <<>>
    ELSE LET front == BuildLog(SubSeq(lines, 1, Len(lines) - 1))
             line == lines[Len(lines)]
         IN  IF Kept(line) THEN front \o line.text ELSE front

Build ==
    /\ pc = "build"
    /\ \/ /\ image_exists' = TRUE          \* the stream ends, the image is tagged
          /\ image_built' = TRUE
          /\ err_msg' = BuildLog(stream)
          /\ pc' = "images_get"
          /\ UNCHANGED << exc, injected >>
       \/ /\ pc' = "images_get"            \* the stream ends, g++ failed: no image
          /\ err_msg' = BuildLog(stream)
          /\ UNCHANGED << image_exists, image_built, exc, injected >>
       \/ /\ Fail("build")                 \* docker.errors.APIError, re-raised
          /\ \E k \in 0..Len(stream) : err_msg' = BuildLog(SubSeq(stream, 1, k))
          /\ UNCHANGED << image_exists, image_built >>
    /\ UNCHANGED << test_case_outputs, joined_alive, stream, outside,
                    actual_outputs, locals, build_dir_exists, docker_image_bound,
                    container_bound, container_running, not_found, alive,
                    crashed, events, outcome, exited_on_own >>

ImagesGetSwallowsNotFound ==
    /\ pc = "images_get"
    /\ \/ /\ image_exists
          /\ docker_image_bound' = TRUE
          /\ pc' = "emit_built"
          /\ UNCHANGED << exc, injected, not_found >>
       \/ /\ ~image_exists
          /\ not_found' = TRUE
          /\ pc' = "emit_built"
          /\ UNCHANGED << docker_image_bound, exc, injected >>
       \/ /\ Fail("get")
          /\ UNCHANGED << docker_image_bound, not_found >>
    /\ UNCHANGED << test_case_outputs, rest, actual_outputs, locals, build_dir_exists,
                    image_exists, image_built, container_bound,
                    container_running, alive, crashed, events, outcome,
                    exited_on_own >>

ImagesGet ==
    /\ pc = "images_get"
    /\ \/ /\ image_exists
          /\ docker_image_bound' = TRUE
          /\ pc' = "emit_built"
          /\ UNCHANGED << exc, injected, not_found >>
       \/ /\ ~image_exists                 \* docker.errors.ImageNotFound
          /\ not_found' = TRUE
          /\ exc' = "ImageNotFound"
          /\ pc' = "emit_failed"
          /\ UNCHANGED << docker_image_bound, injected >>
       \/ /\ Fail("get")                   \* any other error of the engine
          /\ UNCHANGED << docker_image_bound, not_found >>
    /\ UNCHANGED << test_case_outputs, rest, actual_outputs, locals, build_dir_exists,
                    image_exists, image_built, container_bound,
                    container_running, alive, crashed, events, outcome, exited_on_own >>

\* The ImageNotFound handler: publish the build log, then raise e.
EmitFailed ==
    /\ \/ /\ EmitWithMessage("emit_failed", err_msg)
          /\ Throw("ImageNotFound")
          /\ UNCHANGED injected
       \/ EmitFails("emit_failed")
    /\ UNCHANGED << test_case_outputs, rest, actual_outputs, locals, build_dir_exists,
                    engine, alive, crashed, outcome, exited_on_own >>

EmitBuilt ==
    /\ \/ /\ Emit("emit_built", NoData, NoData)
          /\ pc' = "emit_starting"
          /\ UNCHANGED << exc, injected >>
       \/ EmitFails("emit_built")
    /\ UNCHANGED << test_case_outputs, rest, actual_outputs, locals, build_dir_exists,
                    engine, alive, crashed, outcome, exited_on_own >>

\* ------------------------------------------------------------------------
\* Container start (lines 148-162)
\* ------------------------------------------------------------------------
EmitStarting ==
    /\ \/ /\ Emit("emit_starting", NoData, NoData)
          /\ pc' = "containers_run"
          /\ UNCHANGED << exc, injected >>
       \/ EmitFails("emit_starting")
    /\ UNCHANGED << test_case_outputs, rest, actual_outputs, locals, build_dir_exists,
                    engine, alive, crashed, outcome, exited_on_own >>

ContainersRun ==
    /\ pc = "containers_run"
    /\ \/ /\ docker_image_bound
          /\ container_bound' = TRUE
          /\ container_running' = TRUE
          /\ pc' = "api_client"
          /\ UNCHANGED << exc, injected >>
       \/ /\ ~docker_image_bound           \* docker_image.id: UnboundLocalError
          /\ Throw("UnboundLocalError")
          /\ UNCHANGED << container_bound, container_running, injected >>
       \/ /\ Fail("run")
          /\ UNCHANGED << container_bound, container_running >>
    /\ UNCHANGED << test_case_outputs, rest, actual_outputs, locals, build_dir_exists,
                    image_exists, image_built, docker_image_bound, not_found,
                    alive, crashed, events, outcome, exited_on_own >>

ApiClient ==
    /\ pc = "api_client"
    /\ \/ /\ pc' = "emit_started"
          /\ UNCHANGED << exc, injected >>
       \/ Fail("client")
    /\ UNCHANGED << test_case_outputs, rest, actual_outputs, locals, build_dir_exists,
                    engine, alive, crashed, events, outcome, exited_on_own >>

EmitStarted ==
    /\ \/ /\ Emit("emit_started", NoData, NoData)
          /\ pc' = "init_outputs"
          /\ UNCHANGED << exc, injected >>
       \/ EmitFails("emit_started")
    /\ UNCHANGED << test_case_outputs, rest, actual_outputs, locals, build_dir_exists,
                    engine, alive, crashed, outcome, exited_on_own >>

\* actual_outputs = [''] * len(test_case_outputs)
InitOutputs ==
    /\ pc = "init_outputs"
    /\ actual_outputs' = [i \in 1..n |-> <<>>]
    /\ pc' = "loop"
    /\ UNCHANGED << test_case_outputs, rest, locals, build_dir_exists, engine, alive, crashed,
                    events, exc, outcome, injected, exited_on_own >>

\* ------------------------------------------------------------------------
\* Test-case loop (lines 171-195)
\* ------------------------------------------------------------------------
\* for idx, expected_output in enumerate(test_case_outputs)
Loop ==
    /\ pc = "loop"
    /\ pc' = IF idx < n THEN "emit_running" ELSE "emit_cleaning"
    /\ UNCHANGED << test_case_outputs, rest, actual_outputs, locals, build_dir_exists,
                    engine, alive, crashed, events, exc, outcome, injected,
                    exited_on_own >>

EmitRunning ==
    /\ \/ /\ Emit("emit_running", idx, NoData)
          /\ pc' = "thread_start"
          /\ UNCHANGED << exc, injected >>
       \/ EmitFails("emit_running")
    /\ UNCHANGED << test_case_outputs, rest, actual_outputs, locals, build_dir_exists,
                    engine, alive, crashed, outcome, exited_on_own >>

ThreadStartParallel ==
    /\ pc = "thread_start"
    /\ \/ /\ alive' = alive \cup (idx..(n - 1))
          /\ pc' = "join"
          /\ UNCHANGED << exc, injected >>
       \/ /\ Fail("thread")
          /\ UNCHANGED alive
    /\ UNCHANGED << test_case_outputs, rest, actual_outputs, locals, build_dir_exists,
                    engine, crashed, events, outcome, exited_on_own >>

\* thread = Thread(target=run_test_case, ...); thread.start()
ThreadStart ==
    /\ pc = "thread_start"
    /\ \/ /\ alive' = alive \cup {idx}
          /\ pc' = "join"
          /\ UNCHANGED << exc, injected >>
       \/ /\ Fail("thread")
          /\ UNCHANGED alive
    /\ UNCHANGED << test_case_outputs, rest, actual_outputs, locals, build_dir_exists,
                    engine, crashed, events, outcome, exited_on_own >>

\* thread.join(timeout=5.0) returns when the thread has ended or when the
\* timeout has elapsed, so it can return whether or not the thread is alive.
JoinWithoutTimeout(threadAlive) == ~threadAlive

JoinReturns(threadAlive) == TRUE

Join ==
    /\ pc = "join"
    /\ JoinReturns(idx \in alive)
    /\ joined_alive' = (idx \in alive)
    /\ pc' = "is_alive"
    /\ UNCHANGED << test_case_outputs, build_log, outside, actual_outputs, locals, build_dir_exists,
                    engine, alive, crashed, events, exc, outcome, injected,
                    exited_on_own >>

\* "if thread.is_alive:" tests the bound method, which is always true.
IsAliveWithoutCall ==
    /\ pc = "is_alive"
    /\ timed_out' = TRUE
    /\ pc' = "evaluate"
    /\ UNCHANGED << test_case_outputs, rest, actual_outputs, idx,
                    container_output, status, build_dir_exists, engine, alive,
                    crashed, events, exc, outcome, injected, exited_on_own >>

\* timed_out = False; if thread.is_alive(): timed_out = True
IsAlive ==
    /\ pc = "is_alive"
    /\ timed_out' = (idx \in alive)
    /\ pc' = "evaluate"
    /\ UNCHANGED << test_case_outputs, rest, actual_outputs, idx, container_output,
                    status, build_dir_exists, engine, alive, crashed, events, exc,
                    outcome, injected, exited_on_own >>

\* The text without its trailing newlines.
RECURSIVE Strip(_)
Strip(str) ==
    IF str # <<>> /\ str[Len(str)] = "\n"
    THEN Strip(SubSeq(str, 1, Len(str) - 1))
    ELSE str

VerdictTrimmed(timedOut, actualOutput, expectedOutput) ==
    IF timedOut THEN TEST_CASE_TIMED_OUT
    ELSE IF Strip(actualOutput) # Strip(expectedOutput) THEN TEST_CASE_FAILED
    ELSE TEST_CASE_PASSED

\* Lines 187-192.
Verdict(timedOut, actualOutput, expectedOutput) ==
    IF timedOut THEN TEST_CASE_TIMED_OUT
    ELSE IF actualOutput # expectedOutput THEN TEST_CASE_FAILED
    ELSE TEST_CASE_PASSED

\* container_output = actual_outputs[idx], then the status.
Evaluate ==
    /\ pc = "evaluate"
    /\ container_output' = actual_outputs[idx + 1]
    /\ status' = Verdict(timed_out, actual_outputs[idx + 1],
                         test_case_outputs[idx + 1])
    /\ pc' = "emit_finished_tc"
    /\ UNCHANGED << test_case_outputs, rest, actual_outputs, idx, timed_out,
                    build_dir_exists, engine, alive, crashed, events, exc, outcome,
                    injected, exited_on_own >>

AfterTestCaseBreak(st) ==
    IF st = TEST_CASE_PASSED THEN "loop" ELSE "emit_cleaning"

\* Where the loop goes once test case idx has been reported.
AfterTestCase(st) == "loop"

EmitFinishedTestCase ==
    /\ \/ /\ Emit("emit_finished_tc", idx, status)
          /\ idx' = idx + 1
          /\ pc' = AfterTestCase(status)
          /\ UNCHANGED << exc, injected >>
       \/ /\ EmitFails("emit_finished_tc")
          /\ UNCHANGED idx
    /\ UNCHANGED << test_case_outputs, rest, actual_outputs, timed_out,
                    container_output, status, build_dir_exists, engine, alive, crashed,
                    outcome, exited_on_own >>

\* ------------------------------------------------------------------------
\* Worker thread run_test_case (lines 164-167) and the container itself
\* ------------------------------------------------------------------------
\* The worker stores into the slot of the loop variable, not of its argument.
WorkerFinishSharedIndex(i) ==
    /\ i \in alive
    /\ \E out \in Strings :
           actual_outputs' =
               [actual_outputs EXCEPT ![IF idx < n THEN idx + 1 ELSE n] = out]
    /\ alive' = alive \ {i}
    /\ UNCHANGED << pc, test_case_outputs, rest, locals, build_dir_exists, engine,
                    crashed, events, exc, outcome, injected, exited_on_own >>

\* exec_run returns: the decoded output is stored in the slot of the thread.
WorkerFinish(i) ==
    /\ i \in alive
    /\ \E out \in Strings : actual_outputs' = [actual_outputs EXCEPT ![i + 1] = out]
    /\ alive' = alive \ {i}
    /\ UNCHANGED << pc, test_case_outputs, rest, locals, build_dir_exists, engine,
                    crashed, events, exc, outcome, injected, exited_on_own >>

\* exec_run or decode raises: the thread ends without storing anything.
WorkerRaise(i) ==
    /\ i \in alive
    /\ alive' = alive \ {i}
    /\ crashed' = crashed \cup {i}
    /\ UNCHANGED << pc, test_case_outputs, rest, actual_outputs, locals,
                    build_dir_exists, engine, events, exc, outcome, injected,
                    exited_on_own >>

\* The container ends by itself (its process dies, it runs out of memory);
\* it was started with remove=True, so the engine also removes it.
ContainerExit ==
    /\ container_running
    /\ container_running' = FALSE
    /\ exited_on_own' = TRUE
    /\ UNCHANGED << pc, test_case_outputs, rest, actual_outputs, locals,
                    build_dir_exists, image_exists, docker_image_bound,
                    container_bound, image_built, not_found, alive, crashed, events,
                    exc, outcome, injected >>

\* ------------------------------------------------------------------------
\* Teardown on the normal path (lines 197-204)
\* ------------------------------------------------------------------------
EmitCleaning ==
    /\ \/ /\ Emit("emit_cleaning", NoData, NoData)
          /\ pc' = "kill"
          /\ UNCHANGED << exc, injected >>
       \/ EmitFails("emit_cleaning")
    /\ UNCHANGED << test_case_outputs, rest, actual_outputs, locals, build_dir_exists,
                    engine, alive, crashed, outcome, exited_on_own >>

\* container.kill(): the engine rejects it when the container is not running.
Kill ==
    /\ pc = "kill"
    /\ \/ /\ container_running
          /\ container_running' = FALSE
          /\ pc' = "images_remove"
          /\ UNCHANGED << exc, injected >>
       \/ /\ ~container_running
          /\ Throw("kill")
          /\ UNCHANGED << container_running, injected >>
       \/ /\ Fail("kill")
          /\ UNCHANGED container_running
    /\ UNCHANGED << test_case_outputs, rest, actual_outputs, locals, build_dir_exists,
                    image_exists, docker_image_bound, container_bound,
                    image_built, not_found, alive, crashed, events, outcome,
                    exited_on_own >>

\* docker_client.images.remove(docker_image.id, force=True)
ImagesRemove ==
    /\ pc = "images_remove"
    /\ \/ /\ image_exists
          /\ image_exists' = FALSE
          /\ pc' = "emit_finished"
          /\ UNCHANGED << exc, injected >>
       \/ /\ ~image_exists
          /\ Throw("remove")
          /\ UNCHANGED << image_exists, injected >>
       \/ /\ Fail("remove")
          /\ UNCHANGED image_exists
    /\ UNCHANGED << test_case_outputs, rest, actual_outputs, locals, build_dir_exists,
                    docker_image_bound, container_bound, container_running,
                    image_built, not_found, alive, crashed, events, outcome,
                    exited_on_own >>

EmitFinished ==
    /\ \/ /\ Emit("emit_finished", NoData, NoData)
          /\ pc' = "finally_rmtree"
          /\ UNCHANGED << exc, injected >>
       \/ EmitFails("emit_finished")
    /\ UNCHANGED << test_case_outputs, rest, actual_outputs, locals, build_dir_exists,
                    engine, alive, crashed, outcome, exited_on_own >>

\* ------------------------------------------------------------------------
\* The cleanup block, written twice in the source: in "except Exception"
\* (lines 207-212) and in "finally" (lines 217-222).
\*     try: rmtree(build_dir, ignore_errors=True); container.kill();
\*          images.remove(docker_image.id, force=True)
\*     except: pass
\* p is the program point, next the following statement of the block and
\* after the statement that follows the block.
\* ------------------------------------------------------------------------
RmtreeAfterKill(p, next) ==
    /\ pc = p
    /\ build_dir_exists' =
           IF container_bound /\ container_running THEN FALSE
           ELSE build_dir_exists
    /\ pc' = next
    /\ UNCHANGED << test_case_outputs, rest, actual_outputs, locals, engine, alive,
                    crashed, events, exc, outcome, injected, exited_on_own >>

\* The cleanup block announces itself with a CLEANING_UP event.
RmtreeAnnounced(p, next) ==
    /\ pc = p
    /\ build_dir_exists' = FALSE
    /\ events' = Append(events, Event(CLEANING_UP, NoData, NoData))
    /\ pc' = next
    /\ UNCHANGED << test_case_outputs, rest, actual_outputs, locals, engine, alive,
                    crashed, exc, outcome, injected, exited_on_own >>

Rmtree(p, next) ==
    /\ pc = p
    /\ build_dir_exists' = FALSE
    /\ pc' = next
    /\ UNCHANGED << test_case_outputs, rest, actual_outputs, locals, engine, alive, crashed,
                    events, exc, outcome, injected, exited_on_own >>

\* The kill of the cleanup block outside the try: its exception propagates.
CleanupKillUnguarded(p, next, after) ==
    /\ pc = p
    /\ \/ /\ container_bound /\ container_running
          /\ container_running' = FALSE
          /\ pc' = next
          /\ UNCHANGED << exc, injected >>
       \/ /\ ~(container_bound /\ container_running)
          /\ pc' = after
          /\ exc' = "kill"
          /\ UNCHANGED << container_running, injected >>
       \/ /\ pc' = after
          /\ exc' = "kill"
          /\ injected' = injected \cup {"cleanup"}
          /\ UNCHANGED container_running
    /\ UNCHANGED << test_case_outputs, rest, actual_outputs, locals, build_dir_exists,
                    image_exists, docker_image_bound, container_bound,
                    image_built, not_found, alive, crashed, events, outcome,
                    exited_on_own >>

CleanupKill(p, next, after) ==
    /\ pc = p
    /\ \/ /\ container_bound /\ container_running
          /\ container_running' = FALSE
          /\ pc' = next
          /\ UNCHANGED injected
       \/ /\ ~(container_bound /\ container_running)  \* raises: except: pass
          /\ pc' = after
          /\ UNCHANGED << container_running, injected >>
       \/ /\ pc' = after                              \* the engine fails
          /\ injected' = injected \cup {"cleanup"}
          /\ UNCHANGED container_running
    /\ UNCHANGED << test_case_outputs, rest, actual_outputs, locals, build_dir_exists,
                    image_exists, docker_image_bound, container_bound,
                    image_built, not_found, alive, crashed, events, exc, outcome,
                    exited_on_own >>

CleanupRemove(p, after) ==
    /\ pc = p
    /\ pc' = after
    /\ \/ /\ docker_image_bound /\ image_exists
          /\ image_exists' = FALSE
          /\ UNCHANGED injected
       \/ /\ ~(docker_image_bound /\ image_exists)    \* raises: except: pass
          /\ UNCHANGED << image_exists, injected >>
       \/ /\ injected' = injected \cup {"cleanup"}    \* the engine fails
          /\ UNCHANGED image_exists
    /\ UNCHANGED << test_case_outputs, rest, actual_outputs, locals, build_dir_exists,
                    docker_image_bound, container_bound, container_running,
                    image_built, not_found, alive, crashed, events, exc, outcome,
                    exited_on_own >>

ExceptRmtree == Rmtree("except_rmtree", "except_kill")
ExceptKill == CleanupKill("except_kill", "except_remove", "finally_rmtree")
\* After the block: print, raise e, which enters the finally block.
ExceptRemove == CleanupRemove("except_remove", "finally_rmtree")

FinallyRmtree == Rmtree("finally_rmtree", "finally_kill")
FinallyKill == CleanupKill("finally_kill", "finally_remove", "exit")
FinallyRemove == CleanupRemove("finally_remove", "exit")

\* The call ends: it returns None, or the exception in flight propagates.
Exit ==
    /\ pc = "exit"
    /\ pc' = "done"
    /\ outcome' = IF exc = "none" THEN "returned" ELSE "raised"
    /\ UNCHANGED << test_case_outputs, rest, actual_outputs, locals, build_dir_exists,
                    engine, alive, crashed, events, exc, injected, exited_on_own >>

\* ------------------------------------------------------------------------
\* Specification
\* ------------------------------------------------------------------------
Pipeline ==
    \/ MakeDirs \/ WriteFiles \/ LoadDocker \/ WriteDockerfile
    \/ EmitBuilding \/ Build \/ ImagesGet \/ EmitFailed \/ EmitBuilt
    \/ EmitStarting \/ ContainersRun \/ ApiClient \/ EmitStarted
    \/ InitOutputs \/ Loop \/ EmitRunning \/ ThreadStart \/ Join \/ IsAlive
    \/ Evaluate \/ EmitFinishedTestCase
    \/ EmitCleaning \/ Kill \/ ImagesRemove \/ EmitFinished
    \/ ExceptRmtree \/ ExceptKill \/ ExceptRemove
    \/ FinallyRmtree \/ FinallyKill \/ FinallyRemove \/ Exit

Workers == \E i \in 0..(MaxTests - 1) : WorkerFinish(i) \/ WorkerRaise(i)

Next == Pipeline \/ Workers \/ ContainerExit

Spec == Init /\ [][Next]_vars

\* The pipeline is a running coroutine: it always takes its next step, and
\* thread.join(timeout) always returns.  Nothing forces an exec to return.
\* Progress does not depend on the expected texts, so one text is enough.
LiveInit ==
    /\ Init
    /\ \A k \in 1..n : test_case_outputs[k] = <<"9", "\n">>

LiveSpec == LiveInit /\ [][Next]_vars /\ WF_vars(Pipeline)

\* The build of one submission with the lines the engine may yield: Docker
\* step and layer messages, blank lines, compiler output, and an error line
\* without a 'stream' key.
Lines ==
    { [key |-> "stream", text |-> <<"S", "t", "e", "p", " ", "1">>],
      [key |-> "stream", text |-> <<" ", "-", "-", "-", ">", " ", "a">>],
      [key |-> "stream", text |-> <<"\n">>],
      [key |-> "stream", text |-> <<"e", "\n">>],
      [key |-> "stream", text |-> <<"S", "t", "e", "p", "s">>],
      [key |-> "error", text |-> <<"r", "c">>] }

BuildInit ==
    /\ test_case_outputs \in { <<>>, << <<"9", "\n">> >> }
    /\ stream \in UNION { [1..k -> Lines] : k \in 0..MaxStream }
    /\ Start
    /\ Called
    /\ Alone

BuildSpec == BuildInit /\ [][Next]_vars

\* ------------------------------------------------------------------------
\* The request boundary: ExecutorEndpoint.post (lines 234-284)
\* ------------------------------------------------------------------------
Letters == {"a", "Z"}
Digits == {"0", "5"}
Chars == Letters \cup Digits \cup {".", "/"}

Filenames == UNION { [1..k -> Chars] : k \in 0..MaxNameLen }

\* A request body: are the four keys present, the lengths of the four lists
\* (only their equality matters), can every text be unicode_escape-decoded,
\* and the source filenames.
Requests ==
    { [keys |-> k, codes |-> Len(f) + dc, inputs |-> 1, outputs |-> 1 + dt,
       decodable |-> u, filenames |-> f] :
          k \in BOOLEAN, dc \in {0, 1}, dt \in {0, 1}, u \in BOOLEAN,
          f \in UNION { [1..m -> Filenames] : m \in 1..MaxFiles } }

\* re.match('[a-zA-Z0.9\.]', c): the class holds the letters and the three
\* characters 0, . and 9 ("0.9" is not a range).
InClass(c) == c \in Letters \cup {"0", ".", "9"}

\* Lines 268-271.
FilenamesAccepted(names) ==
    \A i \in 1..Len(names) : \A k \in 1..Len(names[i]) : InClass(names[i][k])

\* The whole handler, up to the call of build_and_run_submission.
PostResult(r) ==
    IF ~r.keys THEN "400"
    ELSE IF r.codes # Len(r.filenames) THEN "400"
    ELSE IF r.inputs # r.outputs THEN "400"
    ELSE IF ~r.decodable THEN "error"             \* decode raises, unhandled
    ELSE IF ~FilenamesAccepted(r.filenames) THEN "invalid_filename"
    ELSE "started"

Post ==
    /\ post_result = "pending"
    /\ post_result' = PostResult(form_data)
    /\ UNCHANGED << pc, test_case_outputs, actual_outputs, locals,
                    build_dir_exists, engine, alive, crashed, events, exc,
                    outcome, injected, exited_on_own, joined_alive, build_log,
                    form_data, pair >>

PostInit ==
    /\ form_data \in Requests
    /\ post_result = "pending"
    /\ test_case_outputs = <<>>
    /\ stream = <<>>
    /\ Start
    /\ Alone

PostNext == Post

PostSpec == PostInit /\ [][PostNext]_vars

\* ------------------------------------------------------------------------
\* Two overlapping calls of build_and_run_submission against one engine.
\* Each call is followed through the steps that create, use or remove a
\* workspace, an image or a container (lines 70-79, 118-157, 200-222).
\* ------------------------------------------------------------------------
solo == << pc, test_case_outputs, actual_outputs, locals, build_dir_exists,
           engine, alive, crashed, events, exc, outcome, injected,
           exited_on_own, joined_alive, build_log, boundary >>

Contexts == {"x", "y"}

ImageIds == { t[2] : t \in image_tags }
Tags == { t[1] : t \in image_tags }

\* The engine's id of the image a build produces. Image ids are digests of
\* the image content and the build reuses cached layers, so the same build
\* context gives the same image, under one more tag.
BuiltImageId(r) == context[r]

\* str(uuid.uuid1()) (line 70): the timestamp never repeats within a process.
Mint(r) ==
    /\ ppc[r] = "mint"
    /\ unique_id' = [unique_id EXCEPT ![r] = uuid_clock]
    /\ uuid_clock' = uuid_clock + 1
    /\ ppc' = [ppc EXCEPT ![r] = "makedirs"]
    /\ UNCHANGED << solo, context, run_image, run_container, dirs,
                    image_tags, containers >>

\* os.makedirs(build_dir) (line 79) raises when the directory exists.
PairMakeDirs(r) ==
    /\ ppc[r] = "makedirs"
    /\ IF unique_id[r] \in dirs
          THEN /\ ppc' = [ppc EXCEPT ![r] = "except"]
               /\ UNCHANGED dirs
          ELSE /\ ppc' = [ppc EXCEPT ![r] = "build"]
               /\ dirs' = dirs \cup {unique_id[r]}
    /\ UNCHANGED << solo, unique_id, uuid_clock, context, run_image,
                    run_container, image_tags, containers >>

\* docker_api_client.build(path=build_dir, tag=image_name) (lines 118-120).
PairBuild(r) ==
    /\ ppc[r] = "build"
    /\ image_tags' = image_tags \cup {<< unique_id[r], BuiltImageId(r) >>}
    /\ ppc' = [ppc EXCEPT ![r] = "get"]
    /\ UNCHANGED << solo, unique_id, uuid_clock, context, run_image,
                    run_container, dirs, containers >>

\* docker_client.images.get(image_name) (lines 137-143).
PairImagesGet(r) ==
    /\ ppc[r] = "get"
    /\ IF unique_id[r] \in Tags
          THEN /\ run_image' = [run_image EXCEPT ![r] =
                      (CHOOSE t \in image_tags : t[1] = unique_id[r])[2]]
               /\ ppc' = [ppc EXCEPT ![r] = "run"]
          ELSE /\ ppc' = [ppc EXCEPT ![r] = "except"]
               /\ UNCHANGED run_image
    /\ UNCHANGED << solo, unique_id, uuid_clock, context, run_container,
                    dirs, image_tags, containers >>

\* docker_client.containers.run(docker_image.id, name=...) (lines 150-157).
PairContainersRun(r) ==
    /\ ppc[r] = "run"
    /\ IF run_image[r] \in ImageIds
          THEN /\ containers' = containers
                      \cup {<< unique_id[r], run_image[r] >>}
               /\ run_container' = [run_container EXCEPT ![r] = TRUE]
               /\ ppc' = [ppc EXCEPT ![r] = "tests"]
          ELSE /\ ppc' = [ppc EXCEPT ![r] = "except"]
               /\ UNCHANGED << containers, run_container >>
    /\ UNCHANGED << solo, unique_id, uuid_clock, context, run_image, dirs,
                    image_tags >>

\* The test case loop (lines 169-195) only execs in the call's own container.
PairRunTestCases(r) ==
    /\ ppc[r] = "tests"
    /\ ppc' = [ppc EXCEPT ![r] = "kill"]
    /\ UNCHANGED << solo, unique_id, uuid_clock, context, run_image,
                    run_container, dirs, image_tags, containers >>

\* container.kill(): the container was run with remove=True.
Killed(r) == { c \in containers : c[1] # unique_id[r] }

PairKill(r) ==
    /\ ppc[r] = "kill"
    /\ containers' = Killed(r)
    /\ ppc' = [ppc EXCEPT ![r] = "remove"]
    /\ UNCHANGED << solo, unique_id, uuid_clock, context, run_image,
                    run_container, dirs, image_tags >>

\* images.remove(docker_image.id, force=True) addresses the image by its id:
\* it raises when there is no such image or a running container uses it,
\* and otherwise removes the image with every tag it has.
Removable(id, running) ==
    /\ id \in ImageIds
    /\ \A c \in running : c[2] # id

Untagged(id) == { t \in image_tags : t[2] # id }

PairImagesRemove(r) ==
    /\ ppc[r] = "remove"
    /\ IF Removable(run_image[r], containers)
          THEN /\ image_tags' = Untagged(run_image[r])
               /\ ppc' = [ppc EXCEPT ![r] = "finally"]
          ELSE /\ ppc' = [ppc EXCEPT ![r] = "except"]
               /\ UNCHANGED image_tags
    /\ UNCHANGED << solo, unique_id, uuid_clock, context, run_image,
                    run_container, dirs, containers >>

\* The guarded block of lines 207-212 and 217-222: rmtree, then kill, which
\* raises when container is unbound or not running, then images.remove;
\* whatever raises ends the block.
Guarded(r) ==
    /\ dirs' = dirs \ {unique_id[r]}
    /\ IF run_container[r] /\ unique_id[r] \in { c[1] : c \in containers }
          THEN /\ containers' = Killed(r)
               /\ image_tags' = IF Removable(run_image[r], Killed(r))
                                   THEN Untagged(run_image[r])
                                   ELSE image_tags
          ELSE UNCHANGED << containers, image_tags >>

PairExcept(r) ==
    /\ ppc[r] = "except"
    /\ Guarded(r)
    /\ ppc' = [ppc EXCEPT ![r] = "finally_raised"]
    /\ UNCHANGED << solo, unique_id, uuid_clock, context, run_image,
                    run_container >>

PairFinally(r) ==
    /\ ppc[r] \in {"finally", "finally_raised"}
    /\ Guarded(r)
    /\ ppc' = [ppc EXCEPT ![r] =
                  IF ppc[r] = "finally" THEN "returned" ELSE "raised"]
    /\ UNCHANGED << solo, unique_id, uuid_clock, context, run_image,
                    run_container >>

PairNext ==
    \E r \in Runs :
        \/ Mint(r)
        \/ PairMakeDirs(r)
        \/ PairBuild(r)
        \/ PairImagesGet(r)
        \/ PairContainersRun(r)
        \/ PairRunTestCases(r)
        \/ PairKill(r)
        \/ PairImagesRemove(r)
        \/ PairExcept(r)
        \/ PairFinally(r)

PairInit ==
    /\ test_case_outputs = <<>>
    /\ stream = <<>>
    /\ Start
    /\ Called
    /\ ppc = [r \in Runs |-> "mint"]
    /\ unique_id = [r \in Runs |-> 0]
    /\ uuid_clock = 1
    /\ context \in [Runs -> Contexts]
    /\ run_image = [r \in Runs |-> "unbound"]
    /\ run_container = [r \in Runs |-> FALSE]
    /\ dirs = {}
    /\ image_tags = {}
    /\ containers = {}

PairSpec == PairInit /\ [][PairNext]_vars

TypeOK ==
    /\ idx \in 0..n
    /\ alive \subseteq 0..(n - 1)
    /\ outcome \in {"running", "returned", "raised"}
    /\ (pc = "done") = (outcome # "running")

\* ------------------------------------------------------------------------
\* Properties
\* ------------------------------------------------------------------------
Published(t) == \E k \in 1..Len(events) : events[k].type = t

Reported(i, st) ==
    \E k \in 1..Len(events) : events[k] = Event(FINISHED_TEST_CASE, i, st)

Ended == pc = "done"

\* No call failed for an outside reason, the build produced the image and
\* the container did not end by itself.
NoFault == injected = {} /\ ~not_found /\ ~exited_on_own

\* C1: once the call has returned or raised, whatever step failed, the
\* workspace directory build_dir does not exist.
C1_WorkspaceRemoved == Ended => ~build_dir_exists

C1_Witness ==
    /\ Ended
    /\ outcome = "raised"
    /\ exc = "run"
    /\ "cleanup" \in injected
    /\ ~build_dir_exists

\* C2: once the call has returned or raised, an image that was built no
\* longer exists in the engine; stated for the failure path the claim singles
\* out: the container start fails after the image was built.
C2_ImageRemovedAfterLaunchFailure ==
    (Ended /\ image_built /\ exc = "run") => ~image_exists

\* C3: stopping an instance that already exited on its own is a no-op, so a
\* run in which nothing else goes wrong still publishes FINISHED, returns,
\* and has removed its image.
C3_StopIdempotent ==
    (Ended /\ exited_on_own /\ injected = {})
        => (outcome = "returned" /\ Published(FINISHED) /\ ~image_exists)

\* C4: a run that succeeds with n test cases has published exactly n
\* FINISHED_TEST_CASE events, for the indices 0..n-1 in increasing order,
\* whatever the verdicts are.
IsFinishedTestCase(e) == e.type = FINISHED_TEST_CASE

ReportedIndices ==
    LET r == SelectSeq(events, IsFinishedTestCase)
    IN  [k \in 1..Len(r) |-> r[k].testCase]

C4_AllTestCasesReported ==
    (Ended /\ outcome = "returned") => ReportedIndices = [k \in 1..n |-> k - 1]

C4_Witness ==
    /\ Ended
    /\ outcome = "returned"
    /\ n >= 2
    /\ \/ Reported(0, TEST_CASE_FAILED)
       \/ Reported(0, TEST_CASE_TIMED_OUT)

\* C5: the status of a test case is TimedOut when the timeout guard said
\* timed out, whatever the captured output is; otherwise it is Passed iff the
\* captured output equals the expected output exactly, and Failed if not.
\* The published event carries that status.
StatusMatches(i) ==
    /\ (status = TEST_CASE_TIMED_OUT) = timed_out
    /\ (status = TEST_CASE_PASSED)
           = (~timed_out /\ container_output = test_case_outputs[i + 1])
    /\ (status = TEST_CASE_FAILED)
           = (~timed_out /\ container_output # test_case_outputs[i + 1])

C5_VerdictRule ==
    /\ pc = "emit_finished_tc" => StatusMatches(idx)
    /\ (pc = "loop" /\ idx > 0) =>
           /\ StatusMatches(idx - 1)
           /\ events[Len(events)] = Event(FINISHED_TEST_CASE, idx - 1, status)

\* The output differs from the expected one by the trailing newline only.
C5_Witness ==
    /\ pc = "loop"
    /\ idx > 0
    /\ ~timed_out
    /\ container_output = <<"9">>
    /\ test_case_outputs[idx] = <<"9", "\n">>
    /\ status = TEST_CASE_FAILED

\* C6: when the image is not retrievable after the build, no instance is
\* started, none of the events STARTING_DOCKER_CONTAINER,
\* DOCKER_CONTAINER_STARTED, RUNNING_TEST_CASE, FINISHED_TEST_CASE is
\* published, and the call raises with the workspace removed.
C6_NoInstanceAfterFailedBuild ==
    not_found =>
        /\ ~container_bound
        /\ ~container_running
        /\ ~Published(STARTING_DOCKER_CONTAINER)
        /\ ~Published(DOCKER_CONTAINER_STARTED)
        /\ ~Published(RUNNING_TEST_CASE)
        /\ ~Published(FINISHED_TEST_CASE)
        /\ Ended => (outcome = "raised" /\ ~build_dir_exists)

C6_Witness ==
    /\ Ended
    /\ not_found
    /\ Published(DOCKER_IMAGE_FAILED)
    /\ outcome = "raised"

\* C7: as long as no call of the engine or of the publisher fails, a run
\* whose container has started eventually publishes FINISHED and returns,
\* even if no exec ever returns.
C7_TimeoutIsNotFailure ==
    (pc = "init_outputs" /\ NoFault)
        ~> (~NoFault \/ (Ended /\ outcome = "returned" /\ Published(FINISHED)))

\* Every exec is still running at the end; every test case was TimedOut.
C7_Witness ==
    /\ Ended
    /\ NoFault
    /\ outcome = "returned"
    /\ n >= 1
    /\ alive = 0..(n - 1)
    /\ \A i \in 0..(n - 1) : Reported(i, TEST_CASE_TIMED_OUT)
    /\ ~image_exists
    /\ ~build_dir_exists

\* C8 (as stated): at every moment at most one test-case exec is in flight.
C8_AtMostOneExec == Cardinality(alive) <= 1

\* C8 (amended): an exec in flight belongs either to the test case the loop
\* is at, or to an earlier test case that was reported TimedOut; so the exec
\* of test case i+1 starts only after that of test case i has ended or has
\* been reported TimedOut.
C8_SequentialStart ==
    \A i \in alive : i = idx \/ (i < idx /\ Reported(i, TEST_CASE_TIMED_OUT))

C8_Witness ==
    /\ Cardinality(alive) >= 2
    /\ pc = "join"

\* C9: a publish that raises never fails the pipeline; a run in which only
\* publishes raised returns normally.
C9_PublishNeverFails ==
    (Ended /\ injected = {"publish"} /\ ~not_found /\ ~exited_on_own)
        => outcome = "returned"

\* C10: the published event types are a prefix of BUILDING_DOCKER_IMAGE,
\* DOCKER_IMAGE_BUILT, STARTING_DOCKER_CONTAINER, DOCKER_CONTAINER_STARTED,
\* RUNNING_TEST_CASE(i), FINISHED_TEST_CASE(i) for i = 0..n-1, CLEANING_UP,
\* FINISHED; or they are BUILDING_DOCKER_IMAGE, DOCKER_IMAGE_FAILED.
PhaseOrder ==
    << <<BUILDING_DOCKER_IMAGE, NoData>>, <<DOCKER_IMAGE_BUILT, NoData>>,
       <<STARTING_DOCKER_CONTAINER, NoData>>,
       <<DOCKER_CONTAINER_STARTED, NoData>> >>
    \o [k \in 1..(2 * n) |->
           IF k % 2 = 1 THEN <<RUNNING_TEST_CASE, (k - 1) \div 2>>
           ELSE <<FINISHED_TEST_CASE, (k - 2) \div 2>>]
    \o << <<CLEANING_UP, NoData>>, <<FINISHED, NoData>> >>

PublishedPhases ==
    [k \in 1..Len(events) |-> <<events[k].type, events[k].testCase>>]

IsPrefix(s, t) == Len(s) <= Len(t) /\ s = SubSeq(t, 1, Len(s))

C10_PhaseOrder ==
    \/ IsPrefix(PublishedPhases, PhaseOrder)
    \/ PublishedPhases = << <<BUILDING_DOCKER_IMAGE, NoData>>,
                            <<DOCKER_IMAGE_FAILED, NoData>> >>

C10_Witness ==
    /\ Ended
    /\ n >= 1
    /\ PublishedPhases = PhaseOrder

\* C12: a failing cleanup step (stop instance, remove image, remove
\* workspace) is never raised outward; a run whose only failures are failures
\* of cleanup steps returns normally.
C12_CleanupNeverRaises ==
    (/\ Ended
     /\ injected \subseteq {"kill", "remove", "cleanup"}
     /\ ~not_found
     /\ ~exited_on_own)
        => outcome = "returned"

\* C14: when FINISHED has been published the instance has been stopped, the
\* image has been removed and the workspace directory has been removed.
C14_FinishedAfterTeardown ==
    Published(FINISHED)
        => (~container_running /\ ~image_exists /\ ~build_dir_exists)

\* C18: a worker thread that ends stores into the output slot of its own
\* test case only and changes neither the published events nor the locals of
\* the loop; published events are never changed or withdrawn.
C18_LateExecWritesOwnSlot ==
    [][/\ IsPrefix(events, events')
       /\ \A i \in alive \ alive' :
             /\ \A j \in (0..(n - 1)) \ {i} :
                    actual_outputs'[j + 1] = actual_outputs[j + 1]
             /\ events' = events
             /\ status' = status
             /\ container_output' = container_output]_vars

\* Test case 0 was reported TimedOut, its exec returned later and stored its
\* output, and test case 1 was reported from its own output.
C18_Witness ==
    /\ n >= 2
    /\ Reported(0, TEST_CASE_TIMED_OUT)
    /\ 0 \notin alive \cup crashed
    /\ actual_outputs[1] = <<"9">>
    /\ test_case_outputs[2] = <<"9", "\n">>
    /\ Reported(1, TEST_CASE_PASSED)

\* C19: a test case whose exec raised inside the worker thread is never
\* reported Passed.
C19_CrashedNeverPassed ==
    \A i \in crashed : ~Reported(i, TEST_CASE_PASSED)

\* C20: the call returns normally iff FINISHED was published, and raises iff
\* it was not.
C20_OutcomeAgreesWithFinished ==
    Ended => /\ (outcome = "returned") = Published(FINISHED)
             /\ (outcome = "raised") = ~Published(FINISHED)

\* A cleanup call of the finally block failed after FINISHED was published.
C20_Witness ==
    /\ Ended
    /\ outcome = "returned"
    /\ Published(FINISHED)
    /\ "cleanup" \in injected

StagingPoints == {"makedirs", "write_files", "load_docker", "write_dockerfile"}

IsImageFailed(e) == e.type = DOCKER_IMAGE_FAILED

\* The engine's own framing among Lines: the step marker, the layer marker
\* and the blank line.  Compiler output is every other line with a 'stream'
\* key.
FramingTexts ==
    { <<"S", "t", "e", "p", " ", "1">>,
      <<" ", "-", "-", "-", ">", " ", "a">>,
      <<"\n">> }

IsDiagnostic(line) == line.key = "stream" /\ line.text \notin FramingTexts

RECURSIVE Concat(_)
Concat(texts) ==
    IF texts = <<>> THEN <<>> ELSE Head(texts) \o Concat(Tail(texts))

Diagnostics ==
    LET kept == SelectSeq(stream, IsDiagnostic)
    IN  Concat([k \in 1..Len(kept) |-> kept[k].text])

WellFormed(r) ==
    /\ r.keys
    /\ r.codes = Len(r.filenames)
    /\ r.inputs = r.outputs
    /\ r.decodable

OnlyLettersDigitsPeriods(names) ==
    \A i \in 1..Len(names) : \A k \in 1..Len(names[i]) :
        names[i][k] \in Letters \cup Digits \cup {"."}

C17_StartsIffFilenamesValid ==
    post_result # "pending" =>
        ((post_result = "started")
            = (WellFormed(form_data)
               /\ OnlyLettersDigitsPeriods(form_data.filenames)))

\* C11: two overlapping submissions have pairwise distinct workspace paths,
\* image tags and instance names, and no step of one run removes the
\* workspace, image or instance of the other: what a run has created is
\* there until that run itself removes it.
Minted(r) == ppc[r] \notin {"idle", "mint"}

NamesDistinct ==
    \A r \in Runs : \A q \in Runs :
        (r # q /\ Minted(r) /\ Minted(q)) => unique_id[r] # unique_id[q]

HoldsWorkspace(r) ==
    ppc[r] \in {"build", "get", "run", "tests", "kill", "remove"}

HoldsImage(r) == ppc[r] \in {"get", "run", "tests", "kill", "remove"}

HoldsContainer(r) == ppc[r] \in {"tests", "kill"}

C11_RunsDoNotInterfere ==
    /\ NamesDistinct
    /\ \A r \in Runs :
          /\ HoldsWorkspace(r) => unique_id[r] \in dirs
          /\ HoldsImage(r) => unique_id[r] \in Tags
          /\ HoldsContainer(r) => unique_id[r] \in { c[1] : c \in containers }

====
